---- MODULE Spec2Model ----
(***************************************************************************)
(* Fixed-point arithmetic of decimal-wad: Rate (128-bit raw), Decimal      *)
(* (192-bit raw), both scaled by 10^18, and the integer Ratio.             *)
(*                                                                         *)
(* The raw values exceed the integers of the model checker, so an unsigned *)
(* integer is a little-endian sequence of limbs in radix 10^3 with no high *)
(* zero limb; zero is the empty sequence.  The operators Add, Sub, Mul and *)
(* DivMod are exact arithmetic on the naturals; the fixed widths of the    *)
(* program enter only through the checked_* operators and the casts.       *)
(***************************************************************************)
EXTENDS Integers, Sequences, FiniteSets, TLC

Radix == 10 ^ 3

Limb(a, i) == IF i <= Len(a) THEN a[i] ELSE 0

MaxOf(m, n) == IF m < n THEN n ELSE m

MinOf(m, n) == IF m < n THEN m ELSE n

\* The number of high limbs of a that are zero.
HighZeros(a) ==
    CHOOSE t \in 0..Len(a) :
        /\ t = Len(a) \/ a[Len(a) - t] # 0
        /\ \A j \in (Len(a) - t + 1)..Len(a) : a[j] = 0

\* a without its high zero limbs.
Norm(a) == SubSeq(a, 1, Len(a) - HighZeros(a))

\* The natural number n (n within the model checker's integers), at most four limbs.
N(n) ==
    Norm(<<n % Radix, (n \div Radix) % Radix, (n \div (Radix * Radix)) % Radix,
           n \div (Radix * Radix * Radix)>>)

Zero == <<>>

One == <<1>>

\* Carry propagation over the columns lo..hi of cols with carry-in cin: the limbs
\* d and the carry-out c.  A column may exceed the radix or, in a subtraction, be
\* negative: \div rounds down, so a borrow is a carry of -1.  The range is halved
\* so that the evaluation stays shallow.
RECURSIVE CarryBlock(_, _, _, _)
CarryBlock(cols, lo, hi, cin) ==
    IF lo = hi
    THEN LET t == cols[lo] + cin
         IN  [d |-> <<t % Radix>>, c |-> t \div Radix]
    ELSE LET mid == (lo + hi) \div 2
             L == CarryBlock(cols, lo, mid, cin)
             H == CarryBlock(cols, mid + 1, hi, L.c)
         IN  [d |-> L.d \o H.d, c |-> H.c]

Carry(cols) ==
    IF Len(cols) = 0 THEN <<>>
    ELSE LET r == CarryBlock(cols, 1, Len(cols), 0)
         IN  Norm(r.d \o N(r.c))

Add(a, b) ==
    Carry([i \in 1..MaxOf(Len(a), Len(b)) |-> Limb(a, i) + Limb(b, i)])

\* The number of high limbs in which a and b, of one length, agree.
HighEqual(a, b) ==
    CHOOSE t \in 0..Len(a) :
        /\ t = Len(a) \/ a[Len(a) - t] # b[Len(a) - t]
        /\ \A j \in (Len(a) - t + 1)..Len(a) : a[j] = b[j]

Less(a, b) ==
    IF Len(a) # Len(b) THEN Len(a) < Len(b)
    ELSE LET t == HighEqual(a, b)
         IN  IF t = Len(a) THEN FALSE ELSE a[Len(a) - t] < b[Len(a) - t]

Leq(a, b) == ~Less(b, a)

\* a - b, for b <= a.
Sub(a, b) == Carry([i \in 1..Len(a) |-> a[i] - Limb(b, i)])

\* The sum of a[i] * b[k + 1 - i] over i in lo..hi: column k of the product.
RECURSIVE ColSum(_, _, _, _, _)
ColSum(a, b, k, lo, hi) ==
    IF lo > hi THEN 0
    ELSE IF lo = hi THEN a[lo] * b[k + 1 - lo]
    ELSE LET mid == (lo + hi) \div 2
         IN  ColSum(a, b, k, lo, mid) + ColSum(a, b, k, mid + 1, hi)

Mul(a, b) ==
    IF a = <<>> \/ b = <<>> THEN <<>>
    ELSE Carry([k \in 1..(Len(a) + Len(b) - 1) |->
                   ColSum(a, b, k, MaxOf(1, k + 1 - Len(b)), MinOf(Len(a), k))])

Reverse(s) == [i \in 1..Len(s) |-> s[Len(s) + 1 - i]]

\* The largest digit d in lo..hi with b * d <= r (b * lo <= r is given).
RECURSIVE QSearch(_, _, _, _)
QSearch(r, b, lo, hi) ==
    IF lo >= hi THEN lo
    ELSE LET mid == (lo + hi + 1) \div 2
         IN  IF Leq(Mul(b, <<mid>>), r) THEN QSearch(r, b, mid, hi)
             ELSE QSearch(r, b, lo, mid - 1)

\* The quotient digit of r by b, for b # 0 and r < b * Radix.  The two high limbs
\* of b (bt) and the limbs of r above them (rt) bound the digit: it is at least
\* rt \div (bt + 1) and at most rt \div bt.
QDigit(r, b) ==
    LET k == MaxOf(Len(b) - 1, 1)
        bt == Limb(b, k) + Limb(b, k + 1) * Radix
        rt == Limb(r, k) + Limb(r, k + 1) * Radix + Limb(r, k + 2) * Radix * Radix
    IN  QSearch(r, b, rt \div (bt + 1), MinOf(rt \div bt, Radix - 1))

\* Long division of the limbs hi down to lo of a by b, with the remainder of the
\* limbs above hi coming in: the quotient limbs (high limb first) and the
\* remainder going out.  The range is halved, and the upper half is taken first,
\* so that the evaluation stays shallow.
RECURSIVE DivBlock(_, _, _, _, _)
DivBlock(a, b, hi, lo, above) ==
    IF hi = lo
    THEN LET r == Norm(<<a[lo]>> \o above)
             d == QDigit(r, b)
         IN  [quot |-> <<d>>, rem |-> IF d = 0 THEN r ELSE Sub(r, Mul(b, <<d>>))]
    ELSE LET mid == (lo + hi + 1) \div 2
             U == DivBlock(a, b, hi, mid, above)
             L == DivBlock(a, b, mid - 1, lo, U.rem)
         IN  [quot |-> U.quot \o L.quot, rem |-> L.rem]

\* Quotient (rounded down) and remainder of a by b, for b # 0.
DivMod(a, b) ==
    IF a = <<>> THEN [quot |-> <<>>, rem |-> <<>>]
    ELSE LET r == DivBlock(a, b, Len(a), 1, <<>>)
         IN  [quot |-> Norm(Reverse(r.quot)), rem |-> r.rem]

Div(a, b) == DivMod(a, b).quot

Mod(a, b) == DivMod(a, b).rem

RECURSIVE Pow2(_)
Pow2(k) ==
    IF k = 0 THEN One
    ELSE LET h == Pow2(k \div 2)
             s == Mul(h, h)
         IN  IF k % 2 = 0 THEN s ELSE Add(s, s)

(***************************************************************************)
(* common.rs: the scaling constants.  10^18 is seven limbs.                *)
(***************************************************************************)
SCALE == 18

WAD == <<0, 0, 0, 0, 0, 0, 1>>

HALF_WAD == <<0, 0, 0, 0, 0, 500>>

PERCENT_SCALER == <<0, 0, 0, 0, 0, 10>>

BPS_SCALER == Div(PERCENT_SCALER, <<100>>)

\* The largest values of u64, U128 (two 64-bit words) and U192 (three):
\* 2^64 - 1, 2^128 - 1 and 2^192 - 1.
U64_MAX == <<615, 551, 709, 73, 744, 446, 18>>

U128_MAX == <<455, 211, 768, 431, 607, 374, 463, 463, 938, 920, 366, 282, 340>>

U192_MAX ==
    <<895, 512, 34, 464, 444, 355, 102, 416, 666, 207,
      423, 789, 835, 763, 680, 386, 735, 101, 277, 6>>

(***************************************************************************)
(* Option and Result values; a failed unwrap is the outcome Panic.         *)
(***************************************************************************)
Some(v) == [some |-> TRUE, val |-> v]

None == [some |-> FALSE, val |-> <<>>]

Ok(v) == [val |-> v, tag |-> "Ok"]

MathOverflow == [val |-> <<>>, tag |-> "Err"]

Panic == [val |-> <<>>, tag |-> "Panic"]

\* opt.ok_or(DecimalError::MathOverflow)
ok_or(opt) == IF opt.some THEN Ok(opt.val) ELSE MathOverflow

\* opt.unwrap()
unwrap(opt) == IF opt.some THEN Ok(opt.val) ELSE Panic

(***************************************************************************)
(* The checked operations of a fixed-width unsigned integer whose largest  *)
(* value is max.                                                           *)
(***************************************************************************)
checked_add(a, b, max) ==
    LET s == Add(a, b) IN IF Leq(s, max) THEN Some(s) ELSE None

checked_sub(a, b) == IF Less(a, b) THEN None ELSE Some(Sub(a, b))

checked_mul(a, b, max) ==
    LET p == Mul(a, b) IN IF Leq(p, max) THEN Some(p) ELSE None

checked_div(a, b) == IF b = Zero THEN None ELSE Some(Div(a, b))

\* T::try_from(v) for an unsigned integer type T whose largest value is max.
try_from(v, max) == IF Leq(v, max) THEN Some(v) ELSE None

(***************************************************************************)
(* rate.rs                                                                 *)
(***************************************************************************)
Rate_one == WAD

Rate_zero == Zero

Rate_from_percent(percent) == unwrap(checked_mul(percent, PERCENT_SCALER, U128_MAX))

Rate_from_bps(bps) == unwrap(checked_mul(bps, BPS_SCALER, U128_MAX))

Rate_to_scaled_val(self, max) == ok_or(try_from(self, max))

Rate_to_bps(self, max) == ok_or(try_from(Div(self, BPS_SCALER), max))

Rate_try_round(self, max) ==
    LET s == checked_add(HALF_WAD, self, U128_MAX)
    IN  IF ~s.some THEN MathOverflow
        ELSE LET d == checked_div(s.val, WAD)
             IN  IF ~d.some THEN MathOverflow ELSE ok_or(try_from(d.val, max))

\* Rate_try_add with a wrapping sum in place of the checked one.
Rate_try_add_wrapping(self, rhs) == Ok(Mod(Add(self, rhs), Add(U128_MAX, One)))

Rate_try_add(self, rhs) == ok_or(checked_add(self, rhs, U128_MAX))

Rate_try_sub(self, rhs) == ok_or(checked_sub(self, rhs))

Rate_try_div_int(self, rhs) == ok_or(checked_div(self, rhs))

\* Rate_try_div with the quotient unwrapped in place of `ok_or(..)?`.
Rate_try_div_unwrap(self, rhs) ==
    LET m == checked_mul(self, WAD, U128_MAX)
    IN  IF ~m.some THEN MathOverflow ELSE unwrap(checked_div(m.val, rhs))

Rate_try_div(self, rhs) ==
    LET m == checked_mul(self, WAD, U128_MAX)
    IN  IF ~m.some THEN MathOverflow ELSE ok_or(checked_div(m.val, rhs))

Rate_try_mul_int(self, rhs) == ok_or(checked_mul(self, rhs, U128_MAX))

\* Rate_try_mul dividing by WAD before the product in place of after it.
Rate_try_mul_div_first(self, rhs) == ok_or(checked_mul(Div(self, WAD), rhs, U128_MAX))

Rate_try_mul(self, rhs) ==
    LET m == checked_mul(self, rhs, U128_MAX)
    IN  IF ~m.some THEN MathOverflow ELSE ok_or(checked_div(m.val, WAD))

\* Rate::try_pow, the locals after `let mut base` and `let mut ret`.
PowStart(self, exponent) ==
    [pc |-> "loop", exp |-> exponent, base |-> self,
     ret |-> IF Mod(exponent, <<2>>) # Zero THEN self ELSE WAD,
     res |-> Ok(Zero)]

\* PowHalve counting the exponent down by one in place of halving it.
PowDecrement(e) == Sub(e, One)

\* The next exponent of the loop of Rate::try_pow: `exp /= 2`.
PowHalve(e) == Div(e, <<2>>)

\* One pass of `while exp > 0 { .. }`, or `Ok(ret)` after the loop; each `?`
\* returns the error at once.
PowStep(st) ==
    IF st.exp = Zero
    THEN [st EXCEPT !.pc = "done", !.res = Ok(st.ret)]
    ELSE LET e == PowHalve(st.exp)
             b == Rate_try_mul(st.base, st.base)
         IN  IF b.tag # "Ok"
             THEN [st EXCEPT !.pc = "done", !.exp = e, !.res = b]
             ELSE IF Mod(e, <<2>>) = Zero
             THEN [st EXCEPT !.exp = e, !.base = b.val]
             ELSE LET r == Rate_try_mul(st.ret, b.val)
                  IN  IF r.tag # "Ok"
                      THEN [st EXCEPT !.pc = "done", !.exp = e, !.base = b.val, !.res = r]
                      ELSE [st EXCEPT !.exp = e, !.base = b.val, !.ret = r.val]

RECURSIVE PowRun(_)
PowRun(st) == IF st.pc = "done" THEN st.res ELSE PowRun(PowStep(st))

Rate_try_pow(self, exponent) == PowRun(PowStart(self, exponent))

(***************************************************************************)
(* decimal.rs                                                              *)
(***************************************************************************)
Decimal_one == WAD

Decimal_zero == Zero

Decimal_from_percent(percent) == unwrap(checked_mul(percent, PERCENT_SCALER, U192_MAX))

Decimal_to_percent(self, max) == ok_or(try_from(Div(self, PERCENT_SCALER), max))

\* Decimal_to_bps dividing by the percent scaler in place of the bps scaler.
Decimal_to_bps_by_percent(self, max) == ok_or(try_from(Div(self, PERCENT_SCALER), max))

Decimal_to_bps(self, max) == ok_or(try_from(Div(self, BPS_SCALER), max))

Decimal_from_bps(bps) == unwrap(checked_mul(bps, BPS_SCALER, U192_MAX))

Decimal_to_scaled_val(self, max) == ok_or(try_from(self, max))

\* Decimal_try_round without the half unit added before the division.
Decimal_try_round_down(self, max) ==
    LET d == checked_div(self, WAD)
    IN  IF ~d.some THEN MathOverflow ELSE ok_or(try_from(d.val, max))

Decimal_try_round(self, max) ==
    LET s == checked_add(HALF_WAD, self, U192_MAX)
    IN  IF ~s.some THEN MathOverflow
        ELSE LET d == checked_div(s.val, WAD)
             IN  IF ~d.some THEN MathOverflow ELSE ok_or(try_from(d.val, max))

Decimal_try_ceil(self, max) ==
    LET w == checked_sub(WAD, One)
    IN  IF ~w.some THEN MathOverflow
        ELSE LET s == checked_add(w.val, self, U192_MAX)
             IN  IF ~s.some THEN MathOverflow
                 ELSE LET d == checked_div(s.val, WAD)
                      IN  IF ~d.some THEN MathOverflow
                          ELSE ok_or(try_from(d.val, max))

Decimal_try_floor(self, max) ==
    LET d == checked_div(self, WAD)
    IN  IF ~d.some THEN MathOverflow ELSE ok_or(try_from(d.val, max))

\* Decimal_from_int with the product taken in 128 bits in place of 192.
Decimal_from_int_narrow(val) == unwrap(checked_mul(WAD, val, U128_MAX))

\* impl From<T> for Decimal, T: Into<U128>
Decimal_from_int(val) == unwrap(checked_mul(WAD, val, U192_MAX))

\* The conversions between the two widths, from the specification: `From<U128>
\* for U192` widens and keeps the value, `TryFrom<U192> for U128` narrows and
\* fails when the value exceeds the 128-bit range.
U192_try_from_U128(v) == Some(v)

U128_try_from_U192(v) == IF Leq(v, U128_MAX) THEN Some(v) ELSE None

\* impl From<Rate> for Decimal: Self(val.to_scaled_val().unwrap()), where
\* Rate::to_scaled_val::<U192>() is U192::try_from(val.0).map_err(..).
Decimal_from_Rate(val) ==
    LET r == ok_or(U192_try_from_U128(val))
    IN  IF r.tag = "Ok" THEN r ELSE Panic

\* Rate_try_from_Decimal keeping the low 128 bits in place of failing.
Rate_try_from_Decimal_low_bits(decimal) == Ok(Mod(decimal, Add(U128_MAX, One)))

\* impl TryFrom<Decimal> for Rate: Ok(Self(decimal.to_scaled_val()?)), where
\* Decimal::to_scaled_val::<U128>() is U128::try_from(self.0).map_err(..).
Rate_try_from_Decimal(decimal) == ok_or(U128_try_from_U192(decimal))

Decimal_try_add(self, rhs) == ok_or(checked_add(self, rhs, U192_MAX))

Decimal_try_sub(self, rhs) == ok_or(checked_sub(self, rhs))

Decimal_try_div_int(self, rhs) == ok_or(checked_div(self, rhs))

Decimal_try_div(self, rhs) ==
    LET m == checked_mul(self, WAD, U192_MAX)
    IN  IF ~m.some THEN MathOverflow ELSE ok_or(checked_div(m.val, rhs))

Decimal_try_div_Rate(self, rhs) ==
    LET d == Decimal_from_Rate(rhs)
    IN  IF d.tag = "Ok" THEN Decimal_try_div(self, d.val) ELSE Panic

Decimal_try_mul_int(self, rhs) == ok_or(checked_mul(self, rhs, U192_MAX))

Decimal_try_mul(self, rhs) ==
    LET m == checked_mul(self, rhs, U192_MAX)
    IN  IF ~m.some THEN MathOverflow ELSE ok_or(checked_div(m.val, WAD))

Decimal_try_mul_Rate(self, rhs) ==
    LET d == Decimal_from_Rate(rhs)
    IN  IF d.tag = "Ok" THEN Decimal_try_mul(self, d.val) ELSE Panic

(***************************************************************************)
(* impl fmt::Display for Rate and for Decimal.  A string is the sequence   *)
(* of its characters.                                                      *)
(***************************************************************************)
DigitChar(d) == <<"0", "1", "2", "3", "4", "5", "6", "7", "8", "9">>[d + 1]

\* The three decimal digits of a limb.
LimbDigits(l) == <<l \div 100, (l \div 10) % 10, l % 10>>

\* self.0.to_string(): the decimal digits of v with no leading zero, "0" for 0.
to_string(v) ==
    IF v = Zero THEN <<"0">>
    ELSE LET all == [i \in 1..(3 * Len(v)) |->
                        LimbDigits(v[Len(v) - ((i - 1) \div 3)])[((i - 1) % 3) + 1]]
             lead == IF all[1] # 0 THEN 0 ELSE IF all[2] # 0 THEN 1 ELSE 2
         IN  [i \in 1..(3 * Len(v) - lead) |-> DigitChar(all[i + lead])]

\* vec!["0"; k].join("")
Zeros(k) == [i \in 1..k |-> "0"]

\* Decimal_fmt taking the first branch only for fewer than SCALE digits.
Decimal_fmt_less(self) ==
    LET scaled_val == to_string(self)
    IN  IF Len(scaled_val) < SCALE
        THEN <<"0", ".">> \o (Zeros(SCALE - Len(scaled_val)) \o scaled_val)
        ELSE SubSeq(scaled_val, 1, Len(scaled_val) - SCALE) \o <<".">>
                 \o SubSeq(scaled_val, Len(scaled_val) - SCALE + 1, Len(scaled_val))

Decimal_fmt(self) ==
    LET scaled_val == to_string(self)
    IN  IF Len(scaled_val) <= SCALE
        THEN <<"0", ".">> \o (Zeros(SCALE - Len(scaled_val)) \o scaled_val)
        ELSE SubSeq(scaled_val, 1, Len(scaled_val) - SCALE) \o <<".">>
                 \o SubSeq(scaled_val, Len(scaled_val) - SCALE + 1, Len(scaled_val))

Rate_fmt(self) ==
    LET scaled_val == to_string(self)
    IN  IF Len(scaled_val) <= SCALE
        THEN <<"0", ".">> \o (Zeros(SCALE - Len(scaled_val)) \o scaled_val)
        ELSE SubSeq(scaled_val, 1, Len(scaled_val) - SCALE) \o <<".">>
                 \o SubSeq(scaled_val, Len(scaled_val) - SCALE + 1, Len(scaled_val))

(***************************************************************************)
(* ratio.rs                                                                *)
(***************************************************************************)
\* v as u64: the low 64 bits.
as_u64(v) == Mod(v, Add(U64_MAX, One))

Ratio_mul(numerator, denominator, amount) ==
    LET m == unwrap(checked_mul(numerator, amount, U128_MAX))
    IN  IF m.tag # "Ok" THEN Panic
        ELSE LET d == unwrap(checked_div(m.val, denominator))
             IN  IF d.tag # "Ok" THEN Panic ELSE Ok(as_u64(d.val))


(***************************************************************************)
(* common.rs: the checked-operation traits, dispatched on the type of the  *)
(* receiver ("Rate" or "Decimal").                                         *)
(***************************************************************************)
Types == {"Rate", "Decimal"}

\* The largest raw value of a type.
MaxRaw(ty) == IF ty = "Rate" THEN U128_MAX ELSE U192_MAX

try_add(ty, self, rhs) ==
    IF ty = "Rate" THEN Rate_try_add(self, rhs) ELSE Decimal_try_add(self, rhs)

try_sub(ty, self, rhs) ==
    IF ty = "Rate" THEN Rate_try_sub(self, rhs) ELSE Decimal_try_sub(self, rhs)

\* try_mul and try_div with a plain integer on the right.
try_mul_int(ty, self, rhs) ==
    IF ty = "Rate" THEN Rate_try_mul_int(self, rhs) ELSE Decimal_try_mul_int(self, rhs)

try_div_int(ty, self, rhs) ==
    IF ty = "Rate" THEN Rate_try_div_int(self, rhs) ELSE Decimal_try_div_int(self, rhs)

\* try_mul and try_div with a value of the receiver's type on the right.
try_mul(ty, self, rhs) ==
    IF ty = "Rate" THEN Rate_try_mul(self, rhs) ELSE Decimal_try_mul(self, rhs)

try_div(ty, self, rhs) ==
    IF ty = "Rate" THEN Rate_try_div(self, rhs) ELSE Decimal_try_div(self, rhs)

(***************************************************************************)
(* The state: one value (its type ty and raw value self), the operation    *)
(* applied to it last (op) with its argument (arg) and outcome (res), and  *)
(* the number n of operations so far.  made records how the current value  *)
(* was constructed.  pc, exp, base and ret are the position and the locals *)
(* of a running Rate::try_pow.                                             *)
(***************************************************************************)
VARIABLES ty, self, made, op, arg, res, n, pc, exp, base, ret

vars == <<ty, self, made, op, arg, res, n, pc, exp, base, ret>>

powVars == <<pc, exp, base, ret>>

NoPow == pc = "idle" /\ exp = Zero /\ base = Zero /\ ret = Zero

Fresh == [by |-> "from_scaled_val", from |-> Zero]

\* The values within MaxDelta of v.
MaxDelta == 1

Around(v) ==
    {Add(v, N(d)) : d \in 0..MaxDelta}
        \cup {Sub(v, N(d)) : d \in {e \in 0..MaxDelta : Leq(N(e), v)}}

AroundAll(S) == UNION {Around(v) : v \in S}

(***************************************************************************)
(* Spec: sequences of try_add, try_sub, try_mul and try_div by an integer, *)
(* each applied to the value the last successful one returned.             *)
(***************************************************************************)
MaxSteps == 2

ChainStart(t) == {Zero, One, WAD, Sub(MaxRaw(t), One), MaxRaw(t)}

ChainValues(t) == {One, WAD, MaxRaw(t)}

ChainFactors == {<<2>>, WAD, U64_MAX}

ChainDivisors == {Zero, <<3>>, U64_MAX}

\* The value the next operation of a sequence is applied to.
Current == IF res.tag = "Ok" THEN res.val ELSE self

Init ==
    /\ ty \in Types
    /\ self \in ChainStart(ty)
    /\ made = Fresh
    /\ op = "new"
    /\ arg = Zero
    /\ res = Ok(self)
    /\ n = 0
    /\ NoPow

Apply(name, rhs, result) ==
    /\ n < MaxSteps
    /\ self' = Current
    /\ op' = name
    /\ arg' = rhs
    /\ res' = result
    /\ n' = n + 1
    /\ UNCHANGED <<ty, made, pc, exp, base, ret>>

TryAdd == \E rhs \in ChainValues(ty) : Apply("try_add", rhs, try_add(ty, Current, rhs))

TrySub == \E rhs \in ChainValues(ty) : Apply("try_sub", rhs, try_sub(ty, Current, rhs))

TryMulInt == \E rhs \in ChainFactors : Apply("try_mul_int", rhs, try_mul_int(ty, Current, rhs))

TryDivInt == \E rhs \in ChainDivisors : Apply("try_div_int", rhs, try_div_int(ty, Current, rhs))

Next == TryAdd \/ TrySub \/ TryMulInt \/ TryDivInt

Spec == Init /\ [][Next]_vars

\* C1: every step of a sequence of try_add, try_sub, try_mul and try_div by an
\* integer returns an error or the exact result: a returned sum less the right
\* operand is the left one, a returned difference plus the right operand is the
\* left one, a returned product divides by the factor to the left operand with
\* no remainder, and a returned quotient q of a by k has k * q <= a < k * (q + 1).
\* The returned value fits the type, and no step panics.
C1_Exact ==
    /\ res.tag \in {"Ok", "Err"}
    /\ res.tag = "Ok" => Leq(res.val, MaxRaw(ty))
    /\ (op = "try_add" /\ res.tag = "Ok") =>
           Leq(arg, res.val) /\ Sub(res.val, arg) = self
    /\ (op = "try_sub" /\ res.tag = "Ok") =>
           Leq(arg, self) /\ Add(res.val, arg) = self
    /\ (op = "try_mul_int" /\ res.tag = "Ok") =>
           IF arg = Zero THEN res.val = Zero
           ELSE DivMod(res.val, arg) = [quot |-> self, rem |-> Zero]
    /\ (op = "try_div_int" /\ res.tag = "Ok") =>
           /\ arg # Zero
           /\ Leq(Mul(arg, res.val), self)
           /\ Less(self, Mul(arg, Add(res.val, One)))

\* A second operation returned the exact product of a value an earlier
\* operation returned, and the product is wider than 64 bits.
C1_Witness ==
    /\ n = 2
    /\ op = "try_mul_int"
    /\ res.tag = "Ok"
    /\ self \notin ChainStart(ty)
    /\ Less(U64_MAX, res.val)

(***************************************************************************)
(* SpecArith: one multiplication or division of a fresh value, by a value  *)
(* of its type, by an integer or (a Decimal) by a Rate.                    *)
(***************************************************************************)
RateAnchors == {Zero, HALF_WAD, WAD, Div(U128_MAX, WAD), Add(U64_MAX, One), U128_MAX}

DecimalAnchors ==
    {Zero, HALF_WAD, WAD, Div(U192_MAX, WAD), Add(U128_MAX, One), U192_MAX}

Raws(t) ==
    {v \in AroundAll(IF t = "Rate" THEN RateAnchors ELSE DecimalAnchors) :
        Leq(v, MaxRaw(t))}

\* The right operands: zero(), the raw value 1, one() and 2.
Operands == {Zero, One, WAD, Add(WAD, WAD)}

\* Rate operands of a Decimal: zero(), from_percent(100) and the largest Rate.
RateOperands == {Rate_zero, Rate_from_percent(N(100)).val, U128_MAX}

ArithInit ==
    /\ ty \in Types
    /\ self \in Raws(ty)
    /\ made = Fresh
    /\ op = "new"
    /\ arg = Zero
    /\ res = Ok(self)
    /\ n = 0
    /\ NoPow

Call(name, rhs, result) ==
    /\ op = "new"
    /\ op' = name
    /\ arg' = rhs
    /\ res' = result
    /\ n' = n + 1
    /\ UNCHANGED <<ty, self, made, pc, exp, base, ret>>

TryMul == \E rhs \in Operands : Call("try_mul", rhs, try_mul(ty, self, rhs))

TryDiv == \E rhs \in Operands : Call("try_div", rhs, try_div(ty, self, rhs))

TryDivByInt ==
    \E rhs \in {Zero, <<7>>} : Call("try_div_int", rhs, try_div_int(ty, self, rhs))

TryMulRate ==
    /\ ty = "Decimal"
    /\ \E rhs \in RateOperands : Call("try_mul_rate", rhs, Decimal_try_mul_Rate(self, rhs))

TryDivRate ==
    /\ ty = "Decimal"
    /\ \E rhs \in RateOperands : Call("try_div_rate", rhs, Decimal_try_div_Rate(self, rhs))

ArithNext == TryMul \/ TryDiv \/ TryDivByInt \/ TryMulRate \/ TryDivRate

SpecArith == ArithInit /\ [][ArithNext]_vars

\* C2 as stated: multiplying or dividing any raw value by one() (a Decimal also
\* by Rate::from_percent(100)) returns it unchanged.
C2_IdentityEveryRaw ==
    (op \in {"try_mul", "try_div", "try_mul_rate"} /\ arg = WAD) => res = Ok(self)

\* C2, amended: multiplying or dividing a raw value x by one() (a Decimal also by
\* Rate::from_percent(100)) returns x unchanged when x is at most the largest raw
\* value of its type divided by 10^18, and the overflow error when x is larger.
C2_IdentityInRange ==
    (op \in {"try_mul", "try_div", "try_mul_rate"} /\ arg = WAD) =>
        IF Leq(self, Div(MaxRaw(ty), WAD)) THEN res = Ok(self) ELSE res = MathOverflow

\* A Decimal wider than 128 bits, the largest the identity holds for, was
\* multiplied by Rate::from_percent(100) and came back unchanged.
C2_Witness ==
    /\ ty = "Decimal"
    /\ op = "try_mul_rate"
    /\ arg = Rate_from_percent(N(100)).val
    /\ self = Div(U192_MAX, WAD)
    /\ res = Ok(self)

\* C3: every checked division by zero (an integer 0, zero() of the receiver's
\* type, or Rate::zero() under a Decimal) returns the overflow error: no value,
\* no panic.
C3_DivByZero ==
    (op \in {"try_div", "try_div_int", "try_div_rate"} /\ arg = Zero) =>
        res = MathOverflow

\* The largest Decimal, whose rescaling by 10^18 overflows, was divided by
\* Rate::zero().
C3_Witness ==
    /\ ty = "Decimal"
    /\ self = U192_MAX
    /\ op = "try_div_rate"
    /\ arg = Rate_zero
    /\ res = MathOverflow

(***************************************************************************)
(* SpecPow: Rate::try_pow, one pass of its loop at a time; n counts the    *)
(* passes.                                                                 *)
(***************************************************************************)
MaxExp == 8

PowBases ==
    {v \in AroundAll({Zero, WAD, Add(WAD, HALF_WAD), Add(WAD, WAD), Add(U64_MAX, One)}) :
        Leq(v, U128_MAX)} \cup {U128_MAX}

Exponents == {N(k) : k \in 0..MaxExp} \cup {Div(Add(U64_MAX, One), <<2>>), U64_MAX}

PowInit ==
    /\ ty = "Rate"
    /\ self \in PowBases
    /\ made = Fresh
    /\ op = "new"
    /\ arg = Zero
    /\ res = Ok(self)
    /\ n = 0
    /\ NoPow

PowCall ==
    /\ pc = "idle"
    /\ \E e \in Exponents :
           LET st == PowStart(self, e)
           IN  /\ op' = "try_pow"
               /\ arg' = e
               /\ pc' = st.pc
               /\ exp' = st.exp
               /\ base' = st.base
               /\ ret' = st.ret
    /\ UNCHANGED <<ty, self, made, res, n>>

PowLoop ==
    /\ pc = "loop"
    /\ exp # Zero
    /\ LET st == PowStep([pc |-> pc, exp |-> exp, base |-> base, ret |-> ret, res |-> res])
       IN  /\ pc' = st.pc
           /\ exp' = st.exp
           /\ base' = st.base
           /\ ret' = st.ret
           /\ res' = st.res
    /\ n' = n + 1
    /\ UNCHANGED <<ty, self, made, op, arg>>

PowReturn ==
    /\ pc = "loop"
    /\ exp = Zero
    /\ LET st == PowStep([pc |-> pc, exp |-> exp, base |-> base, ret |-> ret, res |-> res])
       IN  /\ pc' = st.pc
           /\ res' = st.res
    /\ UNCHANGED <<ty, self, made, op, arg, n, exp, base, ret>>

PowNext == PowCall \/ PowLoop \/ PowReturn

SpecPow == PowInit /\ [][PowNext]_vars

\* The exponents 1..8 of the recurrence.
SmallExp(e) == Len(e) = 1 /\ e[1] \in 1..8

\* C4: x.try_pow(0) is Ok(one()), and for n in 1..8 x.try_pow(n) equals
\* x.try_mul(x.try_pow(n - 1)) (an error of try_pow(n - 1) being the error of
\* the right side).
C4_Recurrence ==
    pc = "done" =>
        /\ arg = Zero => res = Ok(Rate_one)
        /\ SmallExp(arg) =>
               LET prev == Rate_try_pow(self, Sub(arg, One))
               IN  res = IF prev.tag = "Ok" THEN Rate_try_mul(self, prev.val) ELSE prev

\* The number of bits of e < 2^90: 0 for 0, else floor(log2 e) + 1; e is cut
\* into pieces of 30 bits, which fit an integer.
ToInt(a) ==
    Limb(a, 1) + Limb(a, 2) * Radix + Limb(a, 3) * Radix * Radix
        + Limb(a, 4) * Radix * Radix * Radix

SmallBits(i) == Cardinality({k \in 0..29 : 2 ^ k <= i})

BitLen(e) ==
    LET piece == <<824, 741, 73, 1>>
        lo == DivMod(e, piece)
        hi == DivMod(lo.quot, piece)
    IN  IF hi.quot # Zero THEN 60 + SmallBits(ToInt(hi.quot))
        ELSE IF hi.rem # Zero THEN 30 + SmallBits(ToInt(hi.rem))
        ELSE SmallBits(ToInt(lo.rem))

\* C9 as stated: a call with exponent e returns after exactly BitLen(e) passes
\* of the loop.
C9_ExactlyLogPasses == pc = "done" => n = BitLen(arg)

\* C9, amended: a call with exponent e makes at most floor(log2 e) + 1 (at most
\* 64, none for e = 0) passes of its loop and then returns: Ok after exactly that
\* many passes, or the overflow error at the first multiplication that overflows,
\* which may be an earlier pass.  While the loop runs, the passes made and the
\* bits left of the exponent add up to the bits of e, so every pass brings the
\* return nearer.  one().try_pow(2^64 - 1) returns Ok(one()).
C9_AtMostLogPasses ==
    /\ pc # "idle" => n + BitLen(exp) <= BitLen(arg)
    /\ pc = "loop" => n + BitLen(exp) = BitLen(arg)
    /\ pc = "done" => res.tag \in {"Ok", "Err"}
    /\ (pc = "done" /\ res.tag = "Ok") => n = BitLen(arg)
    /\ (pc = "done" /\ self = Rate_one /\ arg = U64_MAX) => res = Ok(Rate_one)

\* one().try_pow(2^64 - 1) returned Ok(one()) after 64 passes.
C9_Witness ==
    /\ pc = "done"
    /\ self = Rate_one
    /\ arg = U64_MAX
    /\ n = 64
    /\ res = Ok(Rate_one)

(***************************************************************************)
(* SpecRatio: Ratio::new and Ratio::mul on 64-bit values.                  *)
(***************************************************************************)
U64s == {v \in AroundAll({Zero, <<2>>, Pow2(32), U64_MAX}) : Leq(v, U64_MAX)}

RatioInit ==
    /\ ty = "Ratio"
    /\ self \in [numerator : U64s, denominator : U64s]
    /\ made = [by |-> "new", from |-> Zero]
    /\ op = "new"
    /\ arg = Zero
    /\ res = Ok(Zero)
    /\ n = 0
    /\ NoPow

RatioMul ==
    /\ op = "new"
    /\ \E amount \in U64s :
           /\ op' = "mul"
           /\ arg' = amount
           /\ res' = Ratio_mul(self.numerator, self.denominator, amount)
    /\ n' = n + 1
    /\ UNCHANGED <<ty, self, made, pc, exp, base, ret>>

RatioNext == RatioMul

SpecRatio == RatioInit /\ [][RatioNext]_vars

\* C5: Ratio{numerator, denominator}.mul(amount) returns floor(numerator *
\* amount / denominator); it panics, returning no value, when the denominator
\* is 0 or when that quotient exceeds 2^64 - 1, and never returns the quotient
\* cut to its low 64 bits.
C5_FloorOrAbort ==
    op = "mul" =>
        IF self.denominator = Zero THEN res = Panic
        ELSE LET q == Div(Mul(self.numerator, arg), self.denominator)
             IN  IF Leq(q, U64_MAX) THEN res = Ok(q) ELSE res = Panic

(***************************************************************************)
(* SpecConv: a value is built (from_scaled_val, from_percent, from_bps,    *)
(* Decimal::from(Rate)) and then converted once: to_percent, to_bps,       *)
(* try_round, try_ceil, try_floor into an integer type whose largest value *)
(* is arg, or Rate::try_from(Decimal).                                     *)
(***************************************************************************)
Widths == {U64_MAX, U128_MAX}

ConvRaws(t) ==
    {v \in AroundAll({Zero, HALF_WAD, WAD, Add(WAD, HALF_WAD), Mul(U64_MAX, WAD),
                      Add(U128_MAX, One), MaxRaw(t)}) : Leq(v, MaxRaw(t))}

Percents == {v \in AroundAll({Zero, <<100>>, Pow2(32), U64_MAX}) : Leq(v, U64_MAX)}

Built == {"new", "from_percent", "from_bps", "from"}

ConvInit ==
    /\ ty \in Types
    /\ self \in ConvRaws(ty)
    /\ made = Fresh
    /\ op = "new"
    /\ arg = Zero
    /\ res = Ok(self)
    /\ n = 0
    /\ NoPow

\* A constructor: the value built replaces the current one.
Construct(t, name, from, result) ==
    /\ op = "new"
    /\ ty' = t
    /\ self' = IF result.tag = "Ok" THEN result.val ELSE self
    /\ made' = [by |-> name, from |-> from]
    /\ op' = name
    /\ arg' = from
    /\ res' = result
    /\ n' = n + 1
    /\ UNCHANGED <<pc, exp, base, ret>>

FromPercent ==
    \E t \in Types, percent \in Percents :
        Construct(t, "from_percent", percent,
                  IF t = "Rate" THEN Rate_from_percent(percent)
                  ELSE Decimal_from_percent(percent))

FromBps ==
    \E t \in Types, bps \in Percents :
        Construct(t, "from_bps", bps,
                  IF t = "Rate" THEN Rate_from_bps(bps) ELSE Decimal_from_bps(bps))

FromRate == ty = "Rate" /\ Construct("Decimal", "from", self, Decimal_from_Rate(self))

\* The plain integers Decimal::from accepts: T: Into<U128>.
IntVals == {v \in AroundAll({Zero, U64_MAX, U128_MAX}) : Leq(v, U128_MAX)}

FromInt == \E val \in IntVals : Construct("Decimal", "from_int", val, Decimal_from_int(val))

\* A conversion of the current value; its result is in res.
Convert(name, width, result) ==
    /\ op \in Built
    /\ res.tag = "Ok"
    /\ op' = name
    /\ arg' = width
    /\ res' = result
    /\ n' = n + 1
    /\ UNCHANGED <<ty, self, made, pc, exp, base, ret>>

ToPercent ==
    ty = "Decimal" /\ \E w \in Widths : Convert("to_percent", w, Decimal_to_percent(self, w))

ToBps ==
    \E w \in Widths :
        Convert("to_bps", w,
                IF ty = "Rate" THEN Rate_to_bps(self, w) ELSE Decimal_to_bps(self, w))

TryRound ==
    \E w \in Widths :
        Convert("try_round", w,
                IF ty = "Rate" THEN Rate_try_round(self, w) ELSE Decimal_try_round(self, w))

TryCeil ==
    ty = "Decimal" /\ \E w \in Widths : Convert("try_ceil", w, Decimal_try_ceil(self, w))

TryFloor ==
    ty = "Decimal" /\ \E w \in Widths : Convert("try_floor", w, Decimal_try_floor(self, w))

TryFromDecimal ==
    ty = "Decimal" /\ Convert("try_from", U128_MAX, Rate_try_from_Decimal(self))

ConvNext ==
    \/ FromPercent
    \/ FromBps
    \/ FromRate
    \/ FromInt
    \/ ToPercent
    \/ ToBps
    \/ TryRound
    \/ TryCeil
    \/ TryFloor
    \/ TryFromDecimal

SpecConv == ConvInit /\ [][ConvNext]_vars

\* The whole units and the fraction of a raw value.
Floor(r) == Div(r, WAD)

Frac(r) == Mod(r, WAD)

Rounding == {"try_round", "try_ceil", "try_floor"}

\* C6: a Decimal's try_floor, try_ceil and try_round, and a Rate's try_round,
\* when they return Ok(v), return v = floor(r / 10^18), ceil(r / 10^18) and
\* floor(r / 10^18) + (1 if r mod 10^18 >= 5 * 10^17 else 0); otherwise they
\* return the overflow error.  Raw 5 * 10^17 and raw 10^18 - 1 give round = 1,
\* ceil = 1, floor = 0, and floor <= round <= ceil <= floor + 1.
C6_Rounding ==
    op \in Rounding =>
        /\ res.tag \in {"Ok", "Err"}
        /\ (op = "try_floor" /\ res.tag = "Ok") => res.val = Floor(self)
        /\ (op = "try_ceil" /\ res.tag = "Ok") =>
               res.val = IF Frac(self) = Zero THEN Floor(self) ELSE Add(Floor(self), One)
        /\ (op = "try_round" /\ res.tag = "Ok") =>
               res.val = IF Less(Frac(self), HALF_WAD) THEN Floor(self)
                         ELSE Add(Floor(self), One)
        /\ self \in {HALF_WAD, Sub(WAD, One)} =>
               res = IF op = "try_floor" THEN Ok(Zero) ELSE Ok(One)
        /\ ty = "Decimal" =>
               LET f == Decimal_try_floor(self, arg)
                   r == Decimal_try_round(self, arg)
                   c == Decimal_try_ceil(self, arg)
               IN  (f.tag = "Ok" /\ r.tag = "Ok" /\ c.tag = "Ok") =>
                       /\ Leq(f.val, r.val)
                       /\ Leq(r.val, c.val)
                       /\ Leq(c.val, Add(f.val, One))

\* A Decimal of raw 5 * 10^17 was rounded to 1.
C6_Witness ==
    /\ ty = "Decimal"
    /\ op = "try_round"
    /\ self = HALF_WAD
    /\ arg = U64_MAX
    /\ res = Ok(One)

C8_RoundTrip ==
    /\ op = "from_percent" => res = Ok(Mul(arg, PERCENT_SCALER)) /\ self = res.val
    /\ op = "from_bps" => res = Ok(Mul(arg, BPS_SCALER)) /\ self = res.val
    /\ (op = "to_percent" /\ made.by = "from_percent") => res = Ok(made.from)
    /\ (op = "to_bps" /\ made.by = "from_bps") => res = Ok(made.from)

\* Decimal::from_bps(2^64 - 1).to_bps::<u64>() returned Ok(2^64 - 1).
C8_Witness ==
    /\ ty = "Decimal"
    /\ op = "to_bps"
    /\ made = [by |-> "from_bps", from |-> U64_MAX]
    /\ arg = U64_MAX
    /\ res = Ok(U64_MAX)

(***************************************************************************)
(* SpecDisplay: a Rate or a Decimal is formatted.                          *)
(***************************************************************************)
\* 10^k
Pow10(k) == [i \in 1..(k \div 3) |-> 0] \o <<10 ^ (k % 3)>>

DisplayDigits == {1, 2, 3, 17, 18, 19, 20, 36, 38}

DisplayRaws(t) ==
    {v \in AroundAll({Zero, MaxRaw(t)} \cup {Pow10(k) : k \in DisplayDigits}) :
        Leq(v, MaxRaw(t))}

DisplayInit ==
    /\ ty \in Types
    /\ self \in DisplayRaws(ty)
    /\ made = Fresh
    /\ op = "new"
    /\ arg = Zero
    /\ res = Ok(self)
    /\ n = 0
    /\ NoPow

Display ==
    /\ op = "new"
    /\ op' = "fmt"
    /\ res' = Ok(IF ty = "Rate" THEN Rate_fmt(self) ELSE Decimal_fmt(self))
    /\ n' = n + 1
    /\ UNCHANGED <<ty, self, made, arg, pc, exp, base, ret>>

DisplayNext == Display

SpecDisplay == DisplayInit /\ [][DisplayNext]_vars

Digits == {DigitChar(d) : d \in 0..9}

DigitOf(c) == CHOOSE d \in 0..9 : DigitChar(d) = c

\* The number a string of digits denotes; 0 for the empty string.
RECURSIVE Value(_)
Value(s) ==
    IF Len(s) = 0 THEN Zero
    ELSE IF Len(s) = 1 THEN N(DigitOf(s[1]))
    ELSE LET h == Len(s) \div 2
             high == Value(SubSeq(s, 1, h))
             low == Value(SubSeq(s, h + 1, Len(s)))
         IN  Add(Mul(high, Pow10(Len(s) - h)), low)

\* C10: the text of a Rate or Decimal of raw r is the digits of floor(r / 10^18)
\* (one "0" when that is 0, else no leading zero), then ".", then exactly 18
\* digits whose value is r mod 10^18, with no sign and nothing trimmed; raw 0 is
\* "0.000000000000000000", raw 1 is "0.000000000000000001", raw 10^18 is
\* "1.000000000000000000", and a raw of exactly 18 digits has integer part "0".
C10_Display ==
    op = "fmt" =>
        LET s == res.val
            dot == Len(s) - SCALE
            int == SubSeq(s, 1, dot - 1)
            frac == SubSeq(s, dot + 1, Len(s))
        IN  /\ dot >= 2
            /\ s[dot] = "."
            /\ \A i \in 1..Len(int) : int[i] \in Digits
            /\ \A i \in 1..Len(frac) : frac[i] \in Digits
            /\ Len(frac) = SCALE
            /\ Value(frac) = Mod(self, WAD)
            /\ Value(int) = Div(self, WAD)
            /\ int[1] = "0" => Len(int) = 1
            /\ self = Zero => s = <<"0", ".">> \o Zeros(18)
            /\ self = One => s = <<"0", ".">> \o Zeros(17) \o <<"1">>
            /\ self = WAD => s = <<"1", ".">> \o Zeros(18)
            /\ self = Sub(WAD, One) => s = <<"0", ".">> \o [i \in 1..18 |-> "9"]

\* A Decimal whose raw has exactly 18 digits was formatted.
C10_Witness ==
    /\ ty = "Decimal"
    /\ op = "fmt"
    /\ self = Sub(WAD, One)
    /\ res.val[1] = "0"
    /\ res.val[3] = "9"

====
